---------------------------- MODULE Spec2Model ----------------------------
(***************************************************************************)
(* gps-path-average-distance (src/src/main.rs): a one-shot command line    *)
(* tool that compares the tracks of candidate GPX files with a reference   *)
(* track.                                                                  *)
(*                                                                         *)
(* Numbers.  f64 arithmetic is modelled exactly over the integers:         *)
(*   - a geodetic point is an integer pair (x = longitude, y = latitude);  *)
(*   - the centroid of n points is the rational (sx/n, sy/n); a planar     *)
(*     coordinate is kept as its numerator over the common denominator n   *)
(*     and the common factor K of the projection, so a planar LineString   *)
(*     is [den |-> n, pts |-> numerators];                                 *)
(*   - a distance is kept as its square, a rational [n, d];                *)
(*   - the non-finite values NaN, +inf, -inf and the extremes f64::MAX,    *)
(*     f64::MIN are kept as tagged values.                                 *)
(* Rounding of finite f64 values is not modelled.                          *)
(***************************************************************************)
EXTENDS Integers, Sequences, FiniteSets, TLC

\* ------------------------------------------------------------------------
\* Bounds of the model
\* ------------------------------------------------------------------------
\* Largest x coordinate of the grid the pure-function inputs are drawn from.
MaxCoord == 2
\* Longest polyline given to simplify in SpecGeo.
MaxLen == 4
\* Largest epsilon given to simplify in SpecGeo, in half grid units.
MaxEps == 2
\* Longest polyline of a (candidate, reference) pair in SpecGeo.
MaxPairLen == 2

\* ------------------------------------------------------------------------
\* Points and small helpers
\* ------------------------------------------------------------------------
Pt(px, py) == [x |-> px, y |-> py, nan |-> FALSE]

\* A point whose coordinates are NaN (projected with a NaN anchor).
NaNPt == [x |-> 0, y |-> 0, nan |-> TRUE]

Abs(i) == IF i < 0 THEN -i ELSE i

RECURSIVE GCD(_, _)
GCD(a, b) == IF b = 0 THEN a ELSE GCD(b, a % b)

RECURSIVE SeqSum(_)
SeqSum(s) == IF s = <<>> THEN 0 ELSE Head(s) + SeqSum(Tail(s))

RECURSIVE Flatten(_)
Flatten(ss) == IF ss = <<>> THEN <<>> ELSE Head(ss) \o Flatten(Tail(ss))

\* Largest r with r*r <= q, by bisection between lo (lo*lo <= q) and hi
\* (hi*hi > q).
RECURSIVE ISqrtBetween(_, _, _)
ISqrtBetween(q, lo, hi) ==
    IF hi - lo <= 1 THEN lo
    ELSE LET mid == (lo + hi) \div 2
         IN  IF mid * mid <= q THEN ISqrtBetween(q, mid, hi)
             ELSE ISqrtBetween(q, lo, mid)

ISqrt(q) == ISqrtBetween(q, 0, 46340)

\* Squared euclidean distance of two points with finite coordinates.
Dist2(p, q) == (p.x - q.x) * (p.x - q.x) + (p.y - q.y) * (p.y - q.y)

\* sqrt(n1/d1) <= sqrt(n2/d2), for rationals with positive denominators.
RatLeq(r1, r2) == r1.n * r2.d <= r2.n * r1.d

\* sqrt(N/D) > E/F for N, E >= 0 and D, F > 0.  N*f*f > e*e*D is evaluated
\* by two floor divisions so that no intermediate product leaves 32 bits.
Exceeds(r, E, F) ==
    LET g == GCD(E, F)
        e == E \div g
        f == F \div g
    IN  r.n > ((e * e * r.d) \div f) \div f

\* Squared distance of point p to the segment a-b (the distance geo uses
\* for Point-to-Line: the foot of the perpendicular clamped to the segment;
\* a zero-length segment is its start point).
SegDist2(p, a, b) ==
    LET L2 == Dist2(a, b)
        dot == (p.x - a.x) * (b.x - a.x) + (p.y - a.y) * (b.y - a.y)
        cross == (b.x - a.x) * (p.y - a.y) - (b.y - a.y) * (p.x - a.x)
    IN  IF L2 = 0 THEN [n |-> Dist2(p, a), d |-> 1]
        ELSE IF dot <= 0 THEN [n |-> Dist2(p, a), d |-> 1]
        ELSE IF dot >= L2 THEN [n |-> Dist2(p, b), d |-> 1]
        ELSE [n |-> cross * cross, d |-> L2]

\* ------------------------------------------------------------------------
\* geo::Simplify (Ramer-Douglas-Peucker), as called at main.rs:338-339
\* ------------------------------------------------------------------------
\* Index of the interior vertex of pts farthest from the chord first-last:
\* a fold from (0, 0) that moves on when distance >= farthest_distance, so
\* the last of several farthest vertices wins; a NaN distance never
\* compares >=, so NaN vertices leave the fold at (0, 0).
RECURSIVE FarthestFrom(_, _, _, _)
FarthestFrom(pts, i, bestI, bestD) ==
    IF i >= Len(pts) THEN [index |-> bestI, dist |-> bestD]
    ELSE LET dd == SegDist2(pts[i], pts[1], pts[Len(pts)])
         IN  IF (~pts[i].nan) /\ RatLeq(bestD, dd)
             THEN FarthestFrom(pts, i + 1, i, dd)
             ELSE FarthestFrom(pts, i + 1, bestI, bestD)

Farthest(pts) == FarthestFrom(pts, 2, 0, [n |-> 0, d |-> 1])

\* compute_rdp: empty input gives empty output; two vertices are returned
\* as they are; otherwise the span is split at the farthest interior vertex
\* when that is farther than epsilon from the chord, and collapsed to
\* <<first, last>> when it is not.  A single vertex has no interior vertex
\* and takes the collapsing branch, which returns <<first, last>>: the
\* vertex twice (release build).
RECURSIVE ComputeRdp(_, _, _)
ComputeRdp(pts, E, F) ==
    IF Len(pts) = 0 THEN <<>>
    ELSE IF Len(pts) = 2 THEN pts
    ELSE LET far == Farthest(pts)
         IN  IF far.index # 0 /\ Exceeds(far.dist, E, F)
             THEN LET left == ComputeRdp(SubSeq(pts, 1, far.index), E, F)
                      right == ComputeRdp(SubSeq(pts, far.index, Len(pts)), E, F)
                  IN  SubSeq(left, 1, Len(left) - 1) \o right
             ELSE <<pts[1], pts[Len(pts)]>>

\* rdp: an epsilon <= 0 returns the coordinates unaltered.  Epsilon is the
\* rational E/F (F > 0) in the unit of the coordinates of pts.
Rdp(pts, E, F) == IF E <= 0 THEN pts ELSE ComputeRdp(pts, E, F)

\* ------------------------------------------------------------------------
\* geo::FrechetDistance and geo::HausdorffDistance, main.rs:294-299
\* ------------------------------------------------------------------------
\* Metric values: the square of a finite distance, or f64::MAX / f64::MIN.
Fin(sq) == [k |-> "fin", sq |-> sq]
F64Max == [k |-> "max", sq |-> 0]
F64Min == [k |-> "min", sq |-> 0]
F64NaN == [k |-> "nan", sq |-> 0]

\* a <= b on metric values (false when either is NaN, as for f64).
MLeq(a, b) ==
    /\ a.k # "nan" /\ b.k # "nan"
    /\ \/ a.k = "min"
       \/ b.k = "max"
       \/ a.k = "fin" /\ b.k = "fin" /\ a.sq <= b.sq

\* f64::max and f64::min: a NaN operand is ignored.
MMax(a, b) == IF a.k = "nan" THEN b ELSE IF b.k = "nan" THEN a
              ELSE IF MLeq(a, b) THEN b ELSE a
MMin(a, b) == IF a.k = "nan" THEN b ELSE IF b.k = "nan" THEN a
              ELSE IF MLeq(a, b) THEN a ELSE b

\* Distance of two vertices: NaN when a coordinate is NaN.
PtDist(p, q) == IF p.nan \/ q.nan THEN F64NaN ELSE Fin(Dist2(p, q))

\* The coupling recurrence over the two vertex sequences; 0 when either
\* sequence is empty.
FrechetDistance(P, Q) ==
    IF Len(P) = 0 \/ Len(Q) = 0 THEN Fin(0)
    ELSE LET c[i \in 1..Len(P), j \in 1..Len(Q)] ==
                 LET dd == PtDist(P[i], Q[j])
                 IN  IF i = 1 /\ j = 1 THEN dd
                     ELSE IF j = 1 THEN MMax(c[i - 1, 1], dd)
                     ELSE IF i = 1 THEN MMax(c[1, j - 1], dd)
                     ELSE MMax(MMin(MMin(c[i - 1, j], c[i - 1, j - 1]),
                                    c[i, j - 1]), dd)
         IN  c[Len(P), Len(Q)]

RECURSIVE FoldMin(_, _, _)
FoldMin(p, Q, acc) ==
    IF Q = <<>> THEN acc ELSE FoldMin(p, Tail(Q), MMin(acc, PtDist(p, Head(Q))))

RECURSIVE FoldMaxMin(_, _, _)
FoldMaxMin(P, Q, acc) ==
    IF P = <<>> THEN acc
    ELSE FoldMaxMin(Tail(P), Q, MMax(acc, FoldMin(Head(P), Q, F64Max)))

\* Directed distance: the inner minimum is folded from f64::MAX, the outer
\* maximum from f64::MIN.
DirectedHausdorff(P, Q) == FoldMaxMin(P, Q, F64Min)

HausdorffDistance(P, Q) == MMax(DirectedHausdorff(P, Q), DirectedHausdorff(Q, P))

\* ------------------------------------------------------------------------
\* Program constants
\* ------------------------------------------------------------------------
\* Kilometres per degree of the flat projection (kx and ky of FlatProjection
\* near the equator; one factor stands for both).
K == 111
\* The length, in kilometres, above which the precision warning is printed.
LongTrackKm == 500
\* simplify_epsilon is given in metres, every planar length is in kilometres.
MetersPerKm == 1000
\* process::exit(1), and the exit code of a panic (expect on an Err).
ExitError == 1
ExitPanic == 101
ExitOk == 0

\* ------------------------------------------------------------------------
\* Numbers as the program reports them
\* ------------------------------------------------------------------------
\* A reported value: finite, (K / den) * (sum of sqrt(n/d) over terms) / cnt
\* kilometres, or one of the non-finite f64 values.
Finite(terms, cnt, den) == [k |-> "fin", terms |-> terms, cnt |-> cnt, den |-> den]
Inf == [k |-> "inf", terms |-> <<>>, cnt |-> 0, den |-> 0]
NegInf == [k |-> "-inf", terms |-> <<>>, cnt |-> 0, den |-> 0]
NaN == [k |-> "nan", terms |-> <<>>, cnt |-> 0, den |-> 0]
\* What serde_json writes for a non-finite f64.
JsonNull == [k |-> "null", terms |-> <<>>, cnt |-> 0, den |-> 0]

IsFinite(v) == v.k = "fin"

\* value * 1000.0 of a set distance: f64::MAX and f64::MIN overflow to the
\* infinities.
MetricToMeters(m, den) ==
    CASE m.k = "fin" -> Finite(<<[n |-> m.sq, d |-> 1]>>, 1, den)
      [] m.k = "max" -> Inf
      [] m.k = "min" -> NegInf
      [] OTHER -> NaN

\* A JSON number: serde_json has no representation of NaN or an infinity
\* and writes null.
JsonNum(v) == IF IsFinite(v) THEN v ELSE JsonNull

\* format!("{:.3}m", v): the digits of a finite value (their rounding to
\* three decimals is not modelled), "inf", "-inf" or "NaN".
TextNum(v) ==
    CASE v.k = "fin" -> [str |-> "digits", num |-> v]
      [] v.k = "inf" -> [str |-> "inf", num |-> Inf]
      [] v.k = "-inf" -> [str |-> "-inf", num |-> NegInf]
      [] OTHER -> [str |-> "NaN", num |-> NaN]

\* ------------------------------------------------------------------------
\* GPX data
\* ------------------------------------------------------------------------
NoName == "none"
Track(name, segments) == [name |-> name, segments |-> segments]
Gpx(tracks, waypoints) == [tracks |-> tracks, waypoints |-> waypoints]
EmptyGpx == Gpx(<<>>, <<>>)

\* track.name.as_ref().unwrap_or(&"-- Unnamed --".to_string())
TrackName(track) == IF track.name = NoName THEN "-- Unnamed --" ELSE track.name

\* All points of a track, segment after segment.
TrackPoints(track) == Flatten(track.segments)

\* ------------------------------------------------------------------------
\* Projection
\* ------------------------------------------------------------------------
RECURSIVE SumX(_)
SumX(pts) == IF pts = <<>> THEN 0 ELSE Head(pts).x + SumX(Tail(pts))
RECURSIVE SumY(_)
SumY(pts) == IF pts = <<>> THEN 0 ELSE Head(pts).y + SumY(Tail(pts))

\* A variant of Centroid that takes the first segment only.
CentroidFirstSegment(track) ==
    LET pts == IF track.segments = <<>> THEN <<>> ELSE track.segments[1]
    IN  [sx |-> SumX(pts), sy |-> SumY(pts), n |-> Len(pts)]

\* average_position: the sums of the coordinates of all points of all
\* segments over their number; 0.0 / 0.0 = NaN for a track without points
\* (n = 0).
Centroid(track) ==
    LET pts == TrackPoints(track)
    IN  [sx |-> SumX(pts), sy |-> SumY(pts), n |-> Len(pts)]

\* FlatProjection::new(average_position.x(), average_position.y())
FlatProjectionNew(track) == Centroid(track)

\* projector.project: (lon - lon0) * kx, (lat - lat0) * ky, kept as the
\* numerator over anchor.n and without the factor K.
Project(p, anchor) ==
    IF anchor.n = 0 \/ p.nan THEN NaNPt
    ELSE Pt(anchor.n * p.x - anchor.sx, anchor.n * p.y - anchor.sy)

\* projector.unproject: x / kx + lon0, y / ky + lat0.
Unproject(q, anchor) ==
    IF anchor.n = 0 \/ q.nan THEN NaNPt
    ELSE Pt((q.x + anchor.sx) \div anchor.n, (q.y + anchor.sy) \div anchor.n)

ProjectAll(pts, anchor) == [i \in 1..Len(pts) |-> Project(pts[i], anchor)]

\* join_and_project_segments
JoinAndProjectSegments(segments, projector) ==
    [den |-> projector.n, pts |-> ProjectAll(Flatten(segments), projector)]

\* unproject_linestring
UnprojectLinestring(linestring, projector) ==
    [i \in 1..Len(linestring.pts) |-> Unproject(linestring.pts[i], projector)]

\* ------------------------------------------------------------------------
\* Lengths, closest points and averages
\* ------------------------------------------------------------------------
HasNaN(pts) == \E i \in 1..Len(pts) : pts[i].nan

\* calculate_total_length: the sum of the distances of consecutive points.
CalculateTotalLength(linestring) ==
    LET pts == linestring.pts
    IN  IF Len(pts) >= 2 /\ HasNaN(pts) THEN NaN
        ELSE Finite([i \in 1..(IF Len(pts) = 0 THEN 0 ELSE Len(pts) - 1) |->
                         [n |-> Dist2(pts[i], pts[i + 1]), d |-> 1]],
                    1, linestring.den)

\* length > 500.0 (kilometres).  The sum of square roots is compared through
\* the integer parts of its terms, which decides it for every track of the
\* input pools (their lengths are far from 500 km); NaN > 500.0 is false.
IsLong(length) ==
    /\ IsFinite(length)
    /\ SeqSum([i \in 1..Len(length.terms) |->
                   ISqrt(K * K * length.terms[i].n)]) > LongTrackKm * length.den

\* geo::ClosestPoint for a LineString and the match of main.rs:325-329: the
\* squared distance to the closest point of the polyline, over its segments
\* of non-zero length; Closest::Indeterminate, hence f64::INFINITY, when
\* there is no such segment (an empty or single-point polyline, or only
\* zero-length segments).
RECURSIVE ClosestOf(_, _, _, _)
ClosestOf(p, pts, i, best) ==
    IF i >= Len(pts) THEN best
    ELSE IF pts[i] = pts[i + 1] THEN ClosestOf(p, pts, i + 1, best)
    ELSE LET dd == SegDist2(p, pts[i], pts[i + 1])
         IN  IF best.k = "inf" \/ ~RatLeq(best.r, dd)
             THEN ClosestOf(p, pts, i + 1, [k |-> "fin", r |-> dd])
             ELSE ClosestOf(p, pts, i + 1, best)

\* A variant of CurrentDistance in which Closest::Indeterminate counts 0.
CurrentDistanceZero(point, reference_linestring) ==
    IF HasNaN(reference_linestring.pts) \/
       (point.nan /\ Len(reference_linestring.pts) >= 2)
    THEN [k |-> "nan", r |-> [n |-> 0, d |-> 1]]
    ELSE ClosestOf(point, reference_linestring.pts, 1,
                   [k |-> "fin", r |-> [n |-> 0, d |-> 1]])

\* The distance of one point of the current track to the reference
\* polyline (main.rs:320-331).
CurrentDistance(point, reference_linestring) ==
    IF HasNaN(reference_linestring.pts) \/
       (point.nan /\ Len(reference_linestring.pts) >= 2)
    THEN [k |-> "nan", r |-> [n |-> 0, d |-> 1]]
    ELSE ClosestOf(point, reference_linestring.pts, 1,
                   [k |-> "inf", r |-> [n |-> 0, d |-> 1]])

\* calculate_average_distance followed by total / points as f64: 0.0 / 0
\* is NaN for a polyline without points, an infinite term makes the sum and
\* the mean infinite.
AverageDistance(current_linestring, reference_linestring) ==
    LET pts == current_linestring.pts
        ds == [i \in 1..Len(pts) |-> CurrentDistance(pts[i], reference_linestring)]
    IN  IF Len(pts) = 0 THEN NaN
        ELSE IF \E i \in 1..Len(pts) : ds[i].k = "nan" THEN NaN
        ELSE IF \E i \in 1..Len(pts) : ds[i].k = "inf" THEN Inf
        ELSE Finite([i \in 1..Len(pts) |-> ds[i].r], Len(pts),
                    current_linestring.den)

\* joined_current_linestring.simplify(&(matches.simplify_epsilon / 1000.0)):
\* epsilon kilometres are epsilon * den / (1000 * K) units of the numerators.
Simplify(linestring, simplify_epsilon) ==
    [linestring EXCEPT
        !.pts = Rdp(linestring.pts,
                    IF linestring.den = 0 THEN simplify_epsilon
                    ELSE simplify_epsilon * linestring.den,
                    MetersPerKm * K)]

\* ------------------------------------------------------------------------
\* Inputs of a run
\* ------------------------------------------------------------------------
\* Most candidate files of a run.
MaxFiles == 2

\* A path names nothing, a directory, a file that is no GPX, or a GPX file.
Missing == [kind |-> "missing", gpx |-> EmptyGpx]
Directory == [kind |-> "dir", gpx |-> EmptyGpx]
Unparsable == [kind |-> "bad", gpx |-> EmptyGpx]
GpxFile(gpx) == [kind |-> "gpx", gpx |-> gpx]

\* Tracks of the reference files: two segments, 333 km; one segment of
\* 666 km that returns to its start; no segment at all.
RefTrackTwoSegments ==
    Track("ref", << <<Pt(0, 0), Pt(1, 0)>>, <<Pt(2, 0), Pt(3, 0)>> >>)
RefTrackLong == Track(NoName, << <<Pt(0, 3), Pt(3, 3), Pt(0, 3)>> >>)
RefTrackNoPoints == Track(NoName, <<>>)

\* The reference files: without tracks and waypoints; waypoints only; a
\* track and a waypoint; two tracks and a waypoint; a first track without
\* points.
RefPool ==
    { Missing, Directory, Unparsable,
      GpxFile(Gpx(<<>>, <<>>)),
      GpxFile(Gpx(<<>>, <<Pt(0, 0), Pt(1, 1), Pt(3, 0)>>)),
      GpxFile(Gpx(<<RefTrackTwoSegments>>, <<Pt(0, 3)>>)),
      GpxFile(Gpx(<<RefTrackLong, RefTrackTwoSegments>>, <<Pt(1, 1)>>)),
      GpxFile(Gpx(<<RefTrackNoPoints>>, <<Pt(1, 1)>>)) }

\* The candidate tracks: without segments; two segments with a bump, 425 km;
\* one segment of 666 km that returns to its start.
CandTrackEmpty == Track(NoName, <<>>)
CandTrackBump ==
    Track("bump", << <<Pt(0, 0), Pt(1, 1)>>, <<Pt(2, 0), Pt(3, 0)>> >>)
CandTrackLong ==
    Track("long", << <<Pt(0, 0), Pt(1, 0), Pt(3, 0), Pt(0, 0)>> >>)

\* What a candidate path may name: the three faults, and GPX files of no,
\* one and two tracks.
CandPool ==
    { Missing, Directory, Unparsable,
      GpxFile(Gpx(<<>>, <<>>)),
      GpxFile(Gpx(<<CandTrackBump>>, <<>>)),
      GpxFile(Gpx(<<CandTrackEmpty>>, <<>>)),
      GpxFile(Gpx(<<CandTrackBump, CandTrackEmpty>>, <<>>)),
      GpxFile(Gpx(<<CandTrackLong, CandTrackBump>>, <<>>)) }

\* simplify_epsilon, in metres: the default 1, and 120 km.
EpsPool == {1, 120000}

\* ------------------------------------------------------------------------
\* State
\* ------------------------------------------------------------------------
VARIABLES
    matches,          \* the parsed command line: debug, json, export_track,
                      \* simplify_epsilon
    fs_reference,     \* what the reference path names
    fs_tracks,        \* what each candidate path names, in command-line order
    pc,               \* position of main
    exit_code,        \* exit code once pc is "done" or "fail"
    stdout,           \* lines written to standard output, in order
    stderr,           \* messages written to standard error, in order
    io,               \* file-system operations performed, in order
    track_gpxs,       \* the parsed candidate files
    reference_track,  \* the resolved reference track
    track_index,      \* the running counter of processed tracks
    gpx_index,        \* index of the candidate file being processed (0-based)
    cur_track_index,  \* index of the track within its file (0-based)
    track_gpx_copy,   \* the copy of the current file that export modifies
    written,          \* the GPX structures handed to the writer, in order
    projectors,       \* history: the anchor of every FlatProjection constructed
    reference_lines   \* history: every reference polyline computed

VARIABLES geo_pc, geo_op, geo_P, geo_Q, geo_eps, geo_out

geo_vars == <<geo_pc, geo_op, geo_P, geo_Q, geo_eps, geo_out>>

input_vars == <<matches, fs_reference, fs_tracks>>

run_vars == <<pc, exit_code, stdout, stderr, io, track_gpxs, reference_track,
              track_index, gpx_index, cur_track_index, track_gpx_copy, written,
              projectors, reference_lines>>

vars == <<input_vars, run_vars, geo_vars>>

\* Path 0 is the reference path, path i the i-th candidate path.
IoOp(op, path) == [op |-> op, path |-> path]

NoRecord == [track_index |-> 0]

Line(kind, n, record) == [kind |-> kind, n |-> n, record |-> record]

NoOut == [simplified |-> <<>>, frechet |-> Fin(0), hausdorff |-> Fin(0)]

GeoIdle ==
    /\ geo_pc = "idle" /\ geo_op = "none" /\ geo_P = <<>> /\ geo_Q = <<>>
    /\ geo_eps = 0 /\ geo_out = NoOut

Init ==
    /\ matches \in [debug : BOOLEAN, json : BOOLEAN, export_track : BOOLEAN,
                    simplify_epsilon : EpsPool]
    /\ fs_reference \in RefPool
    /\ fs_tracks \in UNION {[1..m -> CandPool] : m \in 1..MaxFiles}
    /\ pc = "flags"
    /\ exit_code = ExitOk
    /\ stdout = <<>>
    /\ stderr = <<>>
    /\ io = <<>>
    /\ track_gpxs = <<>>
    /\ reference_track = Track(NoName, <<>>)
    /\ track_index = 0
    /\ gpx_index = 0
    /\ cur_track_index = 0
    /\ track_gpx_copy = EmptyGpx
    /\ written = <<>>
    /\ projectors = <<>>
    /\ reference_lines = <<>>
    /\ GeoIdle

\* process::exit(code) or a panic: nothing else changes any more.
Abort(code, message) ==
    /\ pc' = "fail"
    /\ exit_code' = code
    /\ stderr' = Append(stderr, message)

\* ------------------------------------------------------------------------
\* main.rs:75-93  the conflicting flags, then the debug lines
\* ------------------------------------------------------------------------
DebugLines ==
    IF matches.debug
    THEN <<Line("debug", 1, NoRecord), Line("debug", 2, NoRecord),
           Line("debug", 3, NoRecord), Line("debug", 4, NoRecord)>>
    ELSE <<>>

\* A variant of the flag test that lets debug pass when json is set.
FlagsConflictDebugOnly == matches.debug /\ ~matches.json

\* main.rs:76
FlagsConflict == matches.debug /\ matches.json

CheckFlags ==
    /\ pc = "flags"
    /\ IF FlagsConflict
       THEN /\ Abort(ExitError, "both debug and json")
            /\ UNCHANGED stdout
       ELSE /\ pc' = "paths"
            /\ stdout' = stdout \o DebugLines
            /\ UNCHANGED <<exit_code, stderr>>
    /\ UNCHANGED <<input_vars, io, track_gpxs, reference_track, track_index,
                   gpx_index, cur_track_index, track_gpx_copy, written,
                   projectors, reference_lines, geo_vars>>

\* ------------------------------------------------------------------------
\* main.rs:95-114  every path exists and is a file
\* ------------------------------------------------------------------------
\* Path 0 is the reference, path i the i-th candidate.
PathAt(i) == IF i = 0 THEN fs_reference ELSE fs_tracks[i]

\* exists() and is_file() of one path: the operations performed.
PathChecks(i) ==
    IF PathAt(i).kind = "missing" THEN <<IoOp("exists", i)>>
    ELSE <<IoOp("exists", i), IoOp("is_file", i)>>

PathOk(i) == PathAt(i).kind \notin {"missing", "dir"}

\* The first path, in checking order, that fails; Len(fs_tracks) + 1 if none.
RECURSIVE FirstBadPath(_)
FirstBadPath(i) ==
    IF i > Len(fs_tracks) THEN i
    ELSE IF PathOk(i) THEN FirstBadPath(i + 1) ELSE i

RECURSIVE ChecksUpTo(_, _)
ChecksUpTo(i, last) ==
    IF i > last \/ i > Len(fs_tracks) THEN <<>>
    ELSE PathChecks(i) \o ChecksUpTo(i + 1, last)

CheckPaths ==
    /\ pc = "paths"
    /\ LET bad == FirstBadPath(0)
       IN  /\ io' = io \o ChecksUpTo(0, bad)
           /\ IF bad <= Len(fs_tracks)
              THEN Abort(ExitError,
                         IF PathAt(bad).kind = "missing" THEN "does not exist"
                         ELSE "is not a file")
              ELSE /\ pc' = "read"
                   /\ UNCHANGED <<exit_code, stderr>>
    /\ UNCHANGED <<input_vars, stdout, track_gpxs, reference_track, track_index,
                   gpx_index, cur_track_index, track_gpx_copy, written,
                   projectors, reference_lines, geo_vars>>

\* ------------------------------------------------------------------------
\* main.rs:116-129  the reference file, then every candidate file, is read
\* ------------------------------------------------------------------------
RECURSIVE FirstUnparsable(_)
FirstUnparsable(i) ==
    IF i > Len(fs_tracks) THEN i
    ELSE IF PathAt(i).kind = "gpx" THEN FirstUnparsable(i + 1) ELSE i

RECURSIVE ReadsUpTo(_, _)
ReadsUpTo(i, last) ==
    IF i > last \/ i > Len(fs_tracks) THEN <<>>
    ELSE <<IoOp("open", i), IoOp("read", i)>> \o ReadsUpTo(i + 1, last)

ReadFiles ==
    /\ pc = "read"
    /\ LET bad == FirstUnparsable(0)
       IN  /\ io' = io \o ReadsUpTo(0, bad)
           /\ IF bad <= Len(fs_tracks)
              THEN /\ Abort(ExitPanic, "Failed to read path as GPX")
                   /\ UNCHANGED track_gpxs
              ELSE /\ pc' = "resolve"
                   /\ track_gpxs' = [i \in 1..Len(fs_tracks) |-> fs_tracks[i].gpx]
                   /\ UNCHANGED <<exit_code, stderr>>
    /\ UNCHANGED <<input_vars, stdout, reference_track, track_index,
                   gpx_index, cur_track_index, track_gpx_copy, written,
                   projectors, reference_lines, geo_vars>>

\* ------------------------------------------------------------------------
\* main.rs:131-171  the reference track
\* ------------------------------------------------------------------------
reference_gpx == fs_reference.gpx

\* print_info!: only when the json flag is not set.
PrintInfo(lines) == IF matches.json THEN <<>> ELSE lines

\* A variant of ResolvedReference that prefers the waypoints.
ResolvedReferenceWaypointsFirst(gpx) ==
    IF Len(gpx.waypoints) > 0 THEN Track(NoName, <<gpx.waypoints>>)
    ELSE gpx.tracks[1]

\* The track the reference file resolves to.
ResolvedReference(gpx) ==
    IF Len(gpx.tracks) > 0 THEN gpx.tracks[1]
    ELSE Track(NoName, <<gpx.waypoints>>)

total_tracks ==
    SeqSum([i \in 1..Len(track_gpxs) |-> Len(track_gpxs[i].tracks)])

ResolveReference ==
    /\ pc = "resolve"
    /\ IF Len(reference_gpx.tracks) = 0 /\ Len(reference_gpx.waypoints) = 0
       THEN /\ Abort(ExitError, "no tracks or waypoints")
            /\ UNCHANGED <<reference_track, stdout>>
       ELSE /\ reference_track' = ResolvedReference(reference_gpx)
            /\ stdout' = stdout \o
                 PrintInfo((IF Len(reference_gpx.tracks) > 1
                            THEN <<Line("info-multi", 0, NoRecord)>>
                            ELSE IF Len(reference_gpx.tracks) = 0
                            THEN <<Line("info-waypoints", 0, NoRecord)>>
                            ELSE <<>>)
                           \o <<Line("info-calculating", total_tracks, NoRecord)>>)
            /\ pc' = "file"
            /\ UNCHANGED <<exit_code, stderr>>
    /\ UNCHANGED <<input_vars, io, track_gpxs, track_index,
                   gpx_index, cur_track_index, track_gpx_copy, written,
                   projectors, reference_lines, geo_vars>>

\* ------------------------------------------------------------------------
\* main.rs:174-176  the next candidate file is cloned for the export
\* ------------------------------------------------------------------------
BeginFile ==
    /\ pc = "file"
    /\ gpx_index < Len(track_gpxs)
    /\ track_gpx_copy' = track_gpxs[gpx_index + 1]
    /\ cur_track_index' = 0
    /\ pc' = "track"
    /\ UNCHANGED <<input_vars, exit_code, stdout, stderr, io, track_gpxs,
                   reference_track, track_index, gpx_index, written,
                   projectors, reference_lines, geo_vars>>

\* ------------------------------------------------------------------------
\* main.rs:178-428  one track of the current candidate file
\* ------------------------------------------------------------------------
\* A variant of the inner loop that always takes the first track of the file.
CurrentTrackFirst == track_gpxs[gpx_index + 1].tracks[1]

\* main.rs:178  the track of this iteration
CurrentTrack == track_gpxs[gpx_index + 1].tracks[cur_track_index + 1]

\* A variant of the JSON index that uses the running counter.
JsonTrackIndexRunning == track_index + 1

\* main.rs:376  "track_index": cur_track_index + 1
JsonTrackIndex == cur_track_index + 1

\* main.rs:182  the number of the "Track N:" header
HeaderTrackIndex == track_index + 1

\* A variant of the export that pushes without clearing first.
ExportedSegmentsNoClear(old_segments, simplified_linestring, projector) ==
    Append(old_segments, UnprojectLinestring(simplified_linestring, projector))

\* The segment list of the exported copy of a track: the old segments are
\* cleared (main.rs:308), then one segment of the unprojected simplified
\* points is pushed (main.rs:343-355).
ExportedSegments(old_segments, simplified_linestring, projector) ==
    Append(<<>>, UnprojectLinestring(simplified_linestring, projector))

\* The record of one track (main.rs:375-384 and 390-424) before it is
\* rendered as JSON or as text.
ResultRecord(track, index, current_line, reference_line, simplified_line) ==
    [track_index |-> index,
     track_name |-> TrackName(track),
     current_track_length_m |-> CalculateTotalLength(current_line),
     reference_track_length_m |-> CalculateTotalLength(reference_line),
     average_distance_m |-> AverageDistance(current_line, reference_line),
     simplified_average_distance_m |->
         AverageDistance(simplified_line, reference_line),
     frechet_distance_m |->
         MetricToMeters(FrechetDistance(current_line.pts, reference_line.pts),
                        current_line.den),
     hausdorff_distance_m |->
         MetricToMeters(HausdorffDistance(current_line.pts, reference_line.pts),
                        current_line.den)]

\* serde_json::json!({...}).to_string()
JsonRecord(r) ==
    [r EXCEPT !.current_track_length_m = JsonNum(@),
              !.reference_track_length_m = JsonNum(@),
              !.average_distance_m = JsonNum(@),
              !.simplified_average_distance_m = JsonNum(@),
              !.frechet_distance_m = JsonNum(@),
              !.hausdorff_distance_m = JsonNum(@)]

\* The six println! of the text mode, as one entry of stdout.
TextRecord(r) ==
    [current_track_length_m |-> TextNum(r.current_track_length_m),
     reference_track_length_m |-> TextNum(r.reference_track_length_m),
     average_distance_m |-> TextNum(r.average_distance_m),
     simplified_average_distance_m |-> TextNum(r.simplified_average_distance_m),
     frechet_distance_m |-> TextNum(r.frechet_distance_m),
     hausdorff_distance_m |-> TextNum(r.hausdorff_distance_m)]

ProcessTrack ==
    /\ pc = "track"
    /\ cur_track_index < Len(track_gpxs[gpx_index + 1].tracks)
    /\ LET track == CurrentTrack
           projector == FlatProjectionNew(reference_track)
           joined_current_linestring ==
               JoinAndProjectSegments(track.segments, projector)
           joined_reference_linestring ==
               JoinAndProjectSegments(reference_track.segments, projector)
           current_track_length == CalculateTotalLength(joined_current_linestring)
           reference_track_length ==
               CalculateTotalLength(joined_reference_linestring)
           simplified_linestring ==
               Simplify(joined_current_linestring, matches.simplify_epsilon)
           record == ResultRecord(track, JsonTrackIndex,
                                  joined_current_linestring,
                                  joined_reference_linestring,
                                  simplified_linestring)
       IN  /\ projectors' = Append(projectors, projector)
           /\ reference_lines' = Append(reference_lines, joined_reference_linestring)
           /\ stdout' = stdout
                \o PrintInfo(<<Line("info-track", HeaderTrackIndex, NoRecord)>>)
                \o PrintInfo(IF IsLong(current_track_length) \/
                                IsLong(reference_track_length)
                             THEN <<Line("info-long", 0, NoRecord)>>
                             ELSE <<>>)
                \o (IF matches.json
                    THEN <<Line("json", 0, JsonRecord(record))>>
                    ELSE <<Line("text", 0, TextRecord(record))>>)
           /\ track_gpx_copy' =
                IF matches.export_track
                THEN [track_gpx_copy EXCEPT
                        !.tracks[cur_track_index + 1].segments =
                            ExportedSegments(@, simplified_linestring, projector)]
                ELSE track_gpx_copy
    /\ track_index' = track_index + 1
    /\ cur_track_index' = cur_track_index + 1
    /\ UNCHANGED <<input_vars, pc, exit_code, stderr, io, track_gpxs,
                   reference_track, gpx_index, written, geo_vars>>

\* ------------------------------------------------------------------------
\* main.rs:430-440  the export of the current candidate file
\* ------------------------------------------------------------------------
EndFile ==
    /\ pc = "track"
    /\ cur_track_index = Len(track_gpxs[gpx_index + 1].tracks)
    /\ IF matches.export_track
       THEN /\ io' = io \o <<IoOp("create", gpx_index + 1),
                             IoOp("write", gpx_index + 1)>>
            /\ written' = Append(written, [path |-> gpx_index + 1,
                                           gpx |-> track_gpx_copy])
            /\ stdout' = stdout \o <<Line("exported", gpx_index + 1, NoRecord)>>
       ELSE UNCHANGED <<io, written, stdout>>
    /\ gpx_index' = gpx_index + 1
    /\ pc' = "file"
    /\ UNCHANGED <<input_vars, exit_code, stderr, track_gpxs, reference_track,
                   track_index, cur_track_index, track_gpx_copy,
                   projectors, reference_lines, geo_vars>>

\* ------------------------------------------------------------------------
\* main.rs:441  main returns
\* ------------------------------------------------------------------------
Finish ==
    /\ pc = "file"
    /\ gpx_index = Len(track_gpxs)
    /\ pc' = "done"
    /\ exit_code' = ExitOk
    /\ UNCHANGED <<input_vars, stdout, stderr, io, track_gpxs, reference_track,
                   track_index, gpx_index, cur_track_index, track_gpx_copy,
                   written, projectors, reference_lines, geo_vars>>

Next ==
    \/ CheckFlags
    \/ CheckPaths
    \/ ReadFiles
    \/ ResolveReference
    \/ BeginFile
    \/ ProcessTrack
    \/ EndFile
    \/ Finish

Spec == Init /\ [][Next]_vars

\* ------------------------------------------------------------------------
\* Pure-function specification: simplify and the two set distances applied
\* to bounded inputs
\* ------------------------------------------------------------------------
Grid == {Pt(gx, gy) : gx \in 0..MaxCoord, gy \in 0..1}

PolysUpTo(k) == UNION {[1..m -> Grid] : m \in 0..k}

\* Epsilon of SpecGeo is geo_eps / EpsDen grid units.
EpsDen == 2

\* No run of main takes place in the pure-function specification.
MainIdle ==
    /\ matches = [debug |-> FALSE, json |-> FALSE, export_track |-> FALSE,
                  simplify_epsilon |-> 0]
    /\ fs_reference = Missing
    /\ fs_tracks = <<>>
    /\ pc = "idle"
    /\ exit_code = ExitOk
    /\ stdout = <<>>
    /\ stderr = <<>>
    /\ io = <<>>
    /\ track_gpxs = <<>>
    /\ reference_track = Track(NoName, <<>>)
    /\ track_index = 0
    /\ gpx_index = 0
    /\ cur_track_index = 0
    /\ track_gpx_copy = EmptyGpx
    /\ written = <<>>
    /\ projectors = <<>>
    /\ reference_lines = <<>>

InitGeo ==
    /\ MainIdle
    /\ geo_pc = "input"
    /\ geo_out = NoOut
    /\ \/ /\ geo_op = "simplify"
          /\ geo_P \in PolysUpTo(MaxLen)
          /\ geo_Q = <<>>
          /\ geo_eps \in 0..MaxEps
       \/ /\ geo_op = "metric"
          /\ geo_P \in PolysUpTo(MaxPairLen)
          /\ geo_Q \in PolysUpTo(MaxPairLen)
          /\ geo_eps = 0

ApplySimplify ==
    /\ geo_pc = "input" /\ geo_op = "simplify"
    /\ geo_out' = [NoOut EXCEPT !.simplified = Rdp(geo_P, geo_eps, EpsDen)]
    /\ geo_pc' = "done"
    /\ UNCHANGED <<geo_op, geo_P, geo_Q, geo_eps, input_vars, run_vars>>

ApplyMetric ==
    /\ geo_pc = "input" /\ geo_op = "metric"
    /\ geo_out' = [NoOut EXCEPT !.frechet = FrechetDistance(geo_P, geo_Q),
                                !.hausdorff = HausdorffDistance(geo_P, geo_Q)]
    /\ geo_pc' = "done"
    /\ UNCHANGED <<geo_op, geo_P, geo_Q, geo_eps, input_vars, run_vars>>

NextGeo == ApplySimplify \/ ApplyMetric

SpecGeo == InitGeo /\ [][NextGeo]_vars

\* ------------------------------------------------------------------------
\* What the inputs of a run say, for the statements below
\* ------------------------------------------------------------------------
InputRejected ==
    \/ matches.debug /\ matches.json
    \/ fs_reference.kind # "gpx"
    \/ \E i \in 1..Len(fs_tracks) : fs_tracks[i].kind # "gpx"
    \/ /\ fs_reference.gpx.tracks = <<>>
       /\ fs_reference.gpx.waypoints = <<>>

InputValid == ~InputRejected

\* The candidate tracks of the command line in input order, each with the
\* file it is in and its 1-based position in that file.
RECURSIVE InputTracksFrom(_)
InputTracksFrom(i) ==
    IF i > Len(fs_tracks) THEN <<>>
    ELSE [j \in 1..Len(fs_tracks[i].gpx.tracks) |->
             [file |-> i, pos |-> j, track |-> fs_tracks[i].gpx.tracks[j]]]
         \o InputTracksFrom(i + 1)

InputTracks == InputTracksFrom(1)

IsRecordLine(l) == l.kind \in {"json", "text"}

RecordLines == SelectSeq(stdout, IsRecordLine)

\* The reference track the inputs determine, its anchor and its polyline.
InputReference ==
    IF fs_reference.gpx.tracks # <<>> THEN fs_reference.gpx.tracks[1]
    ELSE [name |-> NoName, segments |-> <<fs_reference.gpx.waypoints>>]

InputReferencePoints == Flatten(InputReference.segments)

InputAnchor ==
    [sx |-> SumX(InputReferencePoints), sy |-> SumY(InputReferencePoints),
     n |-> Len(InputReferencePoints)]

\* The record the k-th candidate track of the inputs is to get.
RecordOfInput(k) ==
    LET e == InputTracks[k]
        cur == JoinAndProjectSegments(e.track.segments, InputAnchor)
        ref == JoinAndProjectSegments(InputReference.segments, InputAnchor)
        r == ResultRecord(e.track, e.pos, cur, ref,
                          Simplify(cur, matches.simplify_epsilon))
    IN  IF matches.json THEN Line("json", 0, JsonRecord(r))
        ELSE Line("text", 0, TextRecord(r))

\* The number of candidate tracks of the files before file i (1-based).
RECURSIVE TracksBefore(_)
TracksBefore(i) ==
    IF i <= 1 THEN 0
    ELSE TracksBefore(i - 1) + Len(fs_tracks[i - 1].gpx.tracks)

InLoop == pc \in {"file", "track", "done"}

\* ------------------------------------------------------------------------
\* C1
\* ------------------------------------------------------------------------
\* The records written so far are those of the first tracks of the inputs,
\* one each, in input order, and the loop stands where that many tracks have
\* been processed.
C1_RecordsInInputOrder ==
    InLoop =>
        /\ track_index = TracksBefore(gpx_index + 1) +
                         (IF pc = "track" THEN cur_track_index ELSE 0)
        /\ Len(RecordLines) = track_index
        /\ \A k \in 1..track_index : RecordLines[k] = RecordOfInput(k)
        /\ pc = "done" => /\ track_index = Len(InputTracks)
                          /\ exit_code = ExitOk

\* The number of steps a run in this state has left at most.
StepsLeft ==
    LET loop == 2 * (Len(fs_tracks) - gpx_index)
                + (Len(InputTracks) - track_index) + 1
    IN  CASE pc = "flags" -> loop + 4
          [] pc = "paths" -> loop + 3
          [] pc = "read" -> loop + 2
          [] pc = "resolve" -> loop + 1
          [] pc = "file" -> loop
          [] pc = "track" -> loop - 1
          [] OTHER -> 0

\* The run can take a step: the guard of ProcessTrack holds (everything
\* else in it is an assignment), or another action is enabled.
CanStep ==
    IF pc = "track" /\ cur_track_index < Len(track_gpxs[gpx_index + 1].tracks)
    THEN TRUE
    ELSE ENABLED (CheckFlags \/ CheckPaths \/ ReadFiles \/ ResolveReference
                  \/ BeginFile \/ EndFile \/ Finish)

\* C1: in a run whose inputs all pass validation, exactly one result record
\* is emitted for every track of every candidate file, in input order
\* (files in command-line order, tracks in file order), no track is merged
\* or skipped, and the run then terminates successfully: it never fails,
\* it can always take a step until it is done, and every step brings it
\* closer to the end.
C1_OneRecordPerTrack ==
    /\ [](InputValid => /\ C1_RecordsInInputOrder
                        /\ pc # "fail"
                        /\ StepsLeft >= 0
                        /\ (pc # "done" => CanStep))
    /\ [][StepsLeft' < StepsLeft]_vars

\* C1 witness: a finished run over two files with three tracks, three
\* records.
C1_Witness ==
    /\ pc = "done"
    /\ Len(fs_tracks) = 2
    /\ Len(InputTracks) = 3
    /\ Len(RecordLines) = 3
    /\ InputTracks[1].track # InputTracks[2].track

\* ------------------------------------------------------------------------
\* C2
\* ------------------------------------------------------------------------
\* C2: if the reference file has a track, the reference is its first track,
\* whatever waypoints it has; otherwise, if it has waypoints, the reference
\* is a track of exactly one segment holding all the waypoints in file
\* order; otherwise the run aborts with a fatal error.
C2_ReferenceResolution ==
    /\ [](InLoop =>
            IF Len(fs_reference.gpx.tracks) >= 1
            THEN reference_track = fs_reference.gpx.tracks[1]
            ELSE /\ Len(fs_reference.gpx.waypoints) >= 1
                 /\ Len(reference_track.segments) = 1
                 /\ reference_track.segments[1] = fs_reference.gpx.waypoints)
    /\ [][(/\ pc = "resolve"
           /\ fs_reference.gpx.tracks = <<>>
           /\ fs_reference.gpx.waypoints = <<>>)
          => (pc' = "fail" /\ exit_code' # ExitOk /\ stdout' = stdout)]_vars

\* C2 witness: a reference file with a track and a waypoint resolved to its
\* first track.
C2_Witness ==
    /\ InLoop
    /\ Len(fs_reference.gpx.tracks) >= 1
    /\ Len(fs_reference.gpx.waypoints) >= 1
    /\ reference_track = fs_reference.gpx.tracks[1]
    /\ TrackPoints(reference_track) # fs_reference.gpx.waypoints

\* ------------------------------------------------------------------------
\* C3
\* ------------------------------------------------------------------------
HasExportIo == \E i \in 1..Len(io) : io[i].op \in {"create", "write"}

\* C3: every fatal input error (conflicting debug and json flags, a
\* reference or candidate path that is missing or not a file, an unparsable
\* file, a reference file without tracks and waypoints) ends the run with a
\* non-zero exit code before any per-track record is emitted and before any
\* export file is written; the conflicting flags are rejected before any
\* path is checked or file is read.
C3_FatalErrors ==
    /\ InputRejected => ~InLoop
    /\ InputRejected /\ ~ENABLED Next => pc = "fail"
    /\ pc = "fail" => /\ exit_code # ExitOk
                      /\ RecordLines = <<>>
                      /\ written = <<>>
                      /\ ~HasExportIo
                      /\ InputRejected
    /\ (matches.debug /\ matches.json /\ pc # "flags") =>
           pc = "fail" /\ io = <<>> /\ stdout = <<>>

\* C3 witness: a run stopped by an unparsable candidate file after the
\* debug lines were printed.
C3_Witness ==
    /\ pc = "fail"
    /\ exit_code = ExitPanic
    /\ matches.debug
    /\ stdout # <<>>
    /\ fs_reference.kind = "gpx"

\* ------------------------------------------------------------------------
\* C4
\* ------------------------------------------------------------------------
\* The anchor at the arithmetic mean of all points of all segments of the
\* resolved reference track, as sums and count.
MeanOfReference ==
    LET pts == Flatten(reference_track.segments)
    IN  [sx |-> SumX(pts), sy |-> SumY(pts), n |-> Len(pts)]

\* C4 as stated: exactly one Projection is constructed for the whole run,
\* and the reference polyline is computed once and reused for every
\* candidate.
C4_OneProjectionPerRun ==
    /\ Len(projectors) <= 1
    /\ Len(reference_lines) <= 1
    /\ pc = "done" => Len(projectors) = 1 /\ Len(reference_lines) = 1

\* C4 as amended: one Projection is constructed for every candidate track
\* processed (none in a run without candidate tracks), each anchored at the
\* centroid of the resolved reference track, so that every candidate track
\* and the reference polyline it is compared against are projected with
\* the same anchor; the reference polyline is computed anew for every
\* candidate track and is the same every time.
C4_SameAnchorPerTrack ==
    InLoop =>
        /\ Len(projectors) = track_index
        /\ Len(reference_lines) = track_index
        /\ \A i \in 1..Len(projectors) : projectors[i] = MeanOfReference
        /\ \A i \in 1..Len(reference_lines) :
              /\ reference_lines[i].den = MeanOfReference.n
              /\ reference_lines[i].pts =
                   [j \in 1..Len(Flatten(reference_track.segments)) |->
                      Project(Flatten(reference_track.segments)[j],
                              MeanOfReference)]

\* C4 witness: a finished run over three tracks against a reference track
\* of two segments; three projections with the one anchor were constructed.
C4_Witness ==
    /\ pc = "done"
    /\ Len(projectors) = 3
    /\ Len(reference_track.segments) = 2
    /\ projectors[1] = projectors[3]
    /\ projectors[1].n = 4
    /\ reference_lines[1] = reference_lines[3]

\* ------------------------------------------------------------------------
\* C5
\* ------------------------------------------------------------------------
\* The one segment the exported copy of a candidate track is to hold.
ExportedSegmentOfInput(track) ==
    LET cur == JoinAndProjectSegments(track.segments, InputAnchor)
        simplified == Simplify(cur, matches.simplify_epsilon)
    IN  [i \in 1..Len(simplified.pts) |->
            Unproject(simplified.pts[i], InputAnchor)]

\* What the writer is to be given for the i-th candidate file.
ExportOfInput(i) ==
    [tracks |-> [j \in 1..Len(fs_tracks[i].gpx.tracks) |->
                    [name |-> fs_tracks[i].gpx.tracks[j].name,
                     segments |->
                        <<ExportedSegmentOfInput(fs_tracks[i].gpx.tracks[j])>>]],
     waypoints |-> fs_tracks[i].gpx.waypoints]

WriterCalls == SelectSeq(io, LAMBDA o : o.op = "write")

\* C5: with export requested, the structure handed to the writer for a
\* candidate file has for every track of the file exactly one segment, the
\* track's simplified polyline unprojected in order, whatever the number of
\* segments of the input track; the writer is invoked exactly once per
\* candidate file, after all tracks of the file have been processed; the
\* parsed input is never modified; without export the writer is never
\* invoked.
C5_ExportStructure ==
    /\ [](InLoop =>
            /\ track_gpxs = [i \in 1..Len(fs_tracks) |-> fs_tracks[i].gpx]
            /\ Len(WriterCalls) = Len(written)
            /\ IF matches.export_track
               THEN /\ Len(written) = gpx_index
                    /\ \A i \in 1..Len(written) :
                          /\ written[i].path = i
                          /\ WriterCalls[i].path = i
                          /\ written[i].gpx = ExportOfInput(i)
               ELSE written = <<>> /\ ~HasExportIo)
    /\ [][written' # written =>
            /\ pc = "track"
            /\ cur_track_index = Len(track_gpxs[gpx_index + 1].tracks)
            /\ track_index = TracksBefore(gpx_index + 2)
            /\ Len(written') = Len(written) + 1]_vars

\* C5 witness: a finished export run; the second file written had a track
\* of two segments and a track of none, and each has one segment now.
C5_Witness ==
    /\ pc = "done"
    /\ matches.export_track
    /\ Len(written) = 2
    /\ fs_tracks[2].gpx.tracks = <<CandTrackBump, CandTrackEmpty>>
    /\ Len(written[2].gpx.tracks[1].segments) = 1
    /\ written[2].gpx.tracks[2].segments = << <<>> >>
    /\ Len(written[2].gpx.tracks[1].segments[1]) >= 2

\* ------------------------------------------------------------------------
\* C6
\* ------------------------------------------------------------------------
\* C6: a candidate track without points in any segment is an error: it
\* never gets a result record.
C6_EmptyTrackIsError ==
    (InputValid /\ InLoop) =>
        \A k \in 1..Len(RecordLines) : TrackPoints(InputTracks[k].track) # <<>>

\* ------------------------------------------------------------------------
\* C7
\* ------------------------------------------------------------------------
\* The two averages of a record line as they are reported.
ReportedAverages(l) ==
    <<l.record.average_distance_m, l.record.simplified_average_distance_m>>

\* The records of the candidate tracks with at least one vertex in a run
\* whose reference polyline is empty.
EmptyReferenceRecords ==
    IF InputValid /\ InLoop /\ TrackPoints(reference_track) = <<>>
    THEN {k \in 1..Len(RecordLines) : TrackPoints(InputTracks[k].track) # <<>>}
    ELSE {}

\* C7 as stated: with an empty reference polyline the reported raw and
\* simplified average distances of a candidate with at least one vertex are
\* infinite.
C7_ReportedInfinite ==
    \A k \in EmptyReferenceRecords :
        \A a \in {1, 2} :
            LET v == ReportedAverages(RecordLines[k])[a]
            IN  IF RecordLines[k].kind = "text" THEN v.str = "inf"
                ELSE v.k = "inf"

\* C7 as amended: with an empty reference polyline the closest-point
\* distance of every candidate vertex is infinite and the raw and simplified
\* average distances of a candidate with at least one vertex are infinite;
\* the text output reports them as infinite and the JSON record, which has
\* no infinite number, reports them as null; never as zero or any finite
\* value.
C7_InfiniteOrNull ==
    \A k \in EmptyReferenceRecords :
        \A a \in {1, 2} :
            LET v == ReportedAverages(RecordLines[k])[a]
            IN  IF RecordLines[k].kind = "text"
                THEN v.str = "inf" /\ v.num.k = "inf"
                ELSE v = JsonNull

\* C7 witness: a JSON record and a text record of the track "bump" against
\* a reference track without points.
C7_Witness ==
    /\ pc = "done"
    /\ matches.json
    /\ TrackPoints(reference_track) = <<>>
    /\ EmptyReferenceRecords # {}
    /\ \E k \in EmptyReferenceRecords :
          /\ InputTracks[k].track = CandTrackBump
          /\ RecordLines[k].record.average_distance_m = JsonNull

\* ------------------------------------------------------------------------
\* C8
\* ------------------------------------------------------------------------
\* C8: with the json flag set, standard output holds the per-track JSON
\* records and nothing else.
C8_OnlyJsonOnStdout ==
    matches.json => \A i \in 1..Len(stdout) : stdout[i].kind = "json"

\* ------------------------------------------------------------------------
\* C9
\* ------------------------------------------------------------------------
\* a is an order-preserving subsequence of b.
RECURSIVE IsSubsequence(_, _)
IsSubsequence(a, b) ==
    IF a = <<>> THEN TRUE
    ELSE IF b = <<>> THEN FALSE
    ELSE IF Head(a) = Head(b) THEN IsSubsequence(Tail(a), Tail(b))
    ELSE IsSubsequence(a, Tail(b))

\* p lies within E/F of the polyline line (of its only vertex, when it has
\* one).
WithinEpsilon(p, line, E, F) ==
    \/ Len(line) = 1 /\ ~Exceeds([n |-> Dist2(p, line[1]), d |-> 1], E, F)
    \/ \E i \in 1..(Len(line) - 1) :
          ~Exceeds(SegDist2(p, line[i], line[i + 1]), E, F)

SimplifyApplied == geo_pc = "done" /\ geo_op = "simplify"

\* C9: for every polyline P and every epsilon >= 0, simplify(P, epsilon) is
\* an order-preserving subsequence of the vertices of P that contains the
\* first and the last vertex of P, so that it has at most as many vertices
\* as P, and every vertex of P lies within epsilon of the simplified
\* polyline.
C9_SimplifyContract ==
    SimplifyApplied =>
        LET out == geo_out.simplified
        IN  /\ IsSubsequence(out, geo_P)
            /\ Len(out) <= Len(geo_P)
            /\ geo_P # <<>> => /\ out # <<>>
                               /\ out[1] = geo_P[1]
                               /\ out[Len(out)] = geo_P[Len(geo_P)]
            /\ \A i \in 1..Len(geo_P) :
                  WithinEpsilon(geo_P[i], out, geo_eps, EpsDen)

\* ------------------------------------------------------------------------
\* C10
\* ------------------------------------------------------------------------
MetricApplied == geo_pc = "done" /\ geo_op = "metric"

\* C10: for any two polylines the Hausdorff distance of their vertex
\* sequences is less than or equal to their discrete Frechet distance.
C10_HausdorffAtMostFrechet ==
    MetricApplied => MLeq(geo_out.hausdorff, geo_out.frechet)

\* ------------------------------------------------------------------------
\* C11
\* ------------------------------------------------------------------------
HeaderLines == SelectSeq(stdout, LAMBDA l : l.kind = "info-track")

\* C11: the track_index of a JSON record is the 1-based position of the
\* track within its own candidate file, so it restarts at 1 for every
\* candidate file; the "Track N:" headers of the text mode are numbered 1,
\* 2, 3, ... across all candidate files without a reset, one per processed
\* track, and the JSON mode prints none.
C11_TrackNumbering ==
    (InputValid /\ InLoop) =>
        IF matches.json
        THEN /\ HeaderLines = <<>>
             /\ \A k \in 1..Len(RecordLines) :
                   /\ RecordLines[k].record.track_index = InputTracks[k].pos
                   /\ (InputTracks[k].pos = 1 \/
                       InputTracks[k - 1].file = InputTracks[k].file)
                   /\ (k > 1 /\ InputTracks[k - 1].file # InputTracks[k].file)
                         => RecordLines[k].record.track_index = 1
        ELSE /\ Len(HeaderLines) = track_index
             /\ \A k \in 1..Len(HeaderLines) : HeaderLines[k].n = k

\* C11 witness: a finished JSON run over a file of two tracks and a file of
\* one; the records carry the indices 1, 2, 1.
C11_Witness ==
    /\ pc = "done"
    /\ matches.json
    /\ Len(RecordLines) = 3
    /\ RecordLines[1].record.track_index = 1
    /\ RecordLines[2].record.track_index = 2
    /\ RecordLines[3].record.track_index = 1
    /\ InputTracks[3].file = 2

=============================================================================
